---- MODULE Spec2Model ----
(***************************************************************************)
(* The debounced button of src/button.py: class Button (one pin, one       *)
(* restartable one-shot timer, the confirmed level, two optional           *)
(* callbacks) and the main loop that polls get_state().                    *)
(*                                                                         *)
(* Time is discrete (one Tick = 1 ms).  An armed one-shot timer counts     *)
(* down to 0 and then fires before time advances and before a later edge   *)
(* is delivered; Timer.deinit() stops it.                                  *)
(*                                                                         *)
(* Spec        : every handler runs to completion (the scheduling the      *)
(*               handlers are written for).                                *)
(* SpecFair    : Spec, with timers that do fire and time that does pass.   *)
(* SpecRaise   : Spec, with callbacks that may raise an exception.         *)
(* SpecPreempt : _debounce_handler runs statement by statement and a raw   *)
(*               edge (_irq_handler) may be delivered between two of its   *)
(*               statements.  Only the two handlers are interleaved; the   *)
(*               main loop, which assigns nothing of theirs, is left out.  *)
(***************************************************************************)
EXTENDS Integers, FiniteSets

\* ------------------------------------------------------------- bounds
MaxDebounce == 2      \* debounce_time ranges over 1..MaxDebounce
MaxTimers == 2        \* Timer objects that can exist at once
CbCap == 2            \* the callback / confirmation counters saturate here
EdgeCap == 5          \* the per-burst edge counter saturates here

\* ---------------------------------------------------------- constants
None == 0             \* self.debounce_timer = None
Stopped == -1         \* a timer that is not running (deinit-ed or has fired)

Levels == {0, 1}
DebounceTimes == 1..MaxDebounce
TimerIds == 1..MaxTimers

VARIABLES
  \* ---- the Button object and its collaborators
  idle_state,         \* self.idle_state
  debounce_time,      \* self.debounce_time
  press_callback,     \* TRUE iff self.press_callback is bound
  release_callback,   \* TRUE iff self.release_callback is bound
  pin,                \* the electrical level self.pin.value() returns
  last_stable_state,  \* self.last_stable_state
  debounce_timer,     \* self.debounce_timer: None or a Timer
  timers,             \* per Timer: ms left until it fires, or Stopped
  pc,                 \* position inside _debounce_handler ("idle": not running)
  current_value,      \* _debounce_handler's local current_value
  polled,             \* what the main loop's last get_state() returned
  \* ---- history variables (observers; no action reads them in a guard)
  pollValid,          \* the main loop has called get_state() at least once
  edgeSincePoll,      \* a raw edge was delivered since the last get_state()
  expSincePoll,       \* a timer expired since the last get_state()
  pollRepeat,         \* the last get_state() followed another with neither between
  sinceEdge,          \* ms since the last raw edge, saturating at MaxDebounce
  h,                  \* what the last handler run did
  burst,              \* the current burst of edges (gaps < debounce_time)
  seq,                \* callbacks since construction
  preempted,          \* an edge was delivered inside a _debounce_handler run
  raised              \* the callback that raised and has not been made up for

prog == <<idle_state, debounce_time, press_callback, release_callback, pin,
          last_stable_state, debounce_timer, timers, pc, current_value, polled>>
hist == <<pollValid, edgeSincePoll, expSincePoll, pollRepeat, sinceEdge, h, burst, seq, preempted,
          raised>>
vars == <<prog, hist>>

Min(a, b) == IF a < b THEN a ELSE b
Sat(n) == Min(n, CbCap)

\* ------------------------------------------------------------ get_state
\* return self.last_stable_state != self.idle_state
GetStateLive == pin # idle_state
GetState == last_stable_state # idle_state
\* get_state() assigns nothing: the confirmed level after the call
StableAfterGetStateResync == pin
StableAfterGetState == last_stable_state

\* --------------------------------------------------------- _irq_handler
\* if self.debounce_timer: self.debounce_timer.deinit()
DeinitSkipped(ts, t) == ts
Deinit(ts, t) == IF t # None THEN [ts EXCEPT ![t] = Stopped] ELSE ts

\* Timer(-1): a new Timer object, distinct from the one the field still names
FreshTimers(ts, t) == {u \in TimerIds : ts[u] = Stopped /\ u # t}
NewTimer(ts, t) == CHOOSE u \in FreshTimers(ts, t) : \A w \in FreshTimers(ts, t) : u <= w

\* period=self.debounce_time, mode=Timer.ONE_SHOT
PeriodShort == debounce_time - 1
Period == debounce_time
TimerInit(ts, t) == [ts EXCEPT ![t] = Period]

ArmedTimers == {t \in TimerIds : timers[t] # Stopped}
DueTimers == {t \in TimerIds : timers[t] = 0}

IrqRecord == [op |-> "irq", readPin |-> FALSE, confirmed |-> FALSE, cb |-> "none", saw |-> FALSE]

\* the handler of the "commit in the ISR" bug: it samples the pin itself
_irq_handler_live ==
  LET stopped == Deinit(timers, debounce_timer)
      t == NewTimer(stopped, debounce_timer)
  IN /\ FreshTimers(stopped, debounce_timer) # {}
     /\ debounce_timer' = t
     /\ timers' = TimerInit(stopped, t)
     /\ last_stable_state' = pin'
     /\ h' = [IrqRecord EXCEPT !.readPin = TRUE]
     /\ UNCHANGED <<idle_state, debounce_time, press_callback, release_callback,
                    current_value, polled, pc>>

_irq_handler ==
  LET stopped == Deinit(timers, debounce_timer)
      t == NewTimer(stopped, debounce_timer)
  IN /\ FreshTimers(stopped, debounce_timer) # {}
     /\ debounce_timer' = t
     /\ timers' = TimerInit(stopped, t)
     /\ h' = IrqRecord
     /\ UNCHANGED <<idle_state, debounce_time, press_callback, release_callback,
                    last_stable_state, current_value, polled, pc>>

\* ---------------------------------------------------- _debounce_handler
\* if current_value != self.last_stable_state
ChangedAlways(cur, stable) == TRUE
Changed(cur, stable) == cur # stable

\* the callback the handler invokes for a confirmed level, "none" when unbound
CallbackSwapped(cur) ==
  IF cur # idle_state
    THEN (IF release_callback THEN "release" ELSE "none")
    ELSE (IF press_callback THEN "press" ELSE "none")
Callback(cur) ==
  IF cur = idle_state
    THEN (IF release_callback THEN "release" ELSE "none")
    ELSE (IF press_callback THEN "press" ELSE "none")

\* self.last_stable_state = current_value
UpdateForgotten(cur) == last_stable_state
UpdateIfBound(cur) == IF Callback(cur) # "none" THEN cur ELSE last_stable_state
Update(cur) == cur

\* a callback that raises: the two assignments after the call are not reached
StableAfterRaiseCommitted(cur) == cur
StableAfterRaise(cur) == last_stable_state
TimerAfterRaise == debounce_timer

\* self.debounce_timer = None
ClearForgotten == debounce_timer
Clear == None

\* ------------------------------------------------------------- __init__
\* self.last_stable_state = self.pin.value()
InitialStableIdle == idle_state
InitialStable == pin
InitHist ==
  /\ pollValid = FALSE
  /\ edgeSincePoll = FALSE
  /\ expSincePoll = FALSE
  /\ pollRepeat = FALSE
  /\ sinceEdge = MaxDebounce
  /\ h = [op |-> "init", readPin |-> TRUE, confirmed |-> FALSE, cb |-> "none", saw |-> FALSE]
  /\ burst = [active |-> FALSE, startStable |-> last_stable_state, startPin |-> pin,
              startPending |-> FALSE, cb |-> 0, confirm |-> 0, edges |-> 0]
  /\ seq = [initStable |-> last_stable_state, cb |-> 0, lastCb |-> "none"]
  /\ preempted = FALSE
  /\ raised = [cb |-> "none", level |-> pin, again |-> FALSE]

Init ==
  /\ idle_state \in Levels
  /\ debounce_time \in DebounceTimes
  /\ press_callback \in BOOLEAN
  /\ release_callback \in BOOLEAN
  /\ pin \in Levels
  /\ last_stable_state = InitialStable
  /\ debounce_timer = None
  /\ timers = [t \in TimerIds |-> Stopped]
  /\ pc = "idle"
  /\ current_value = 0
  /\ polled = FALSE
  /\ InitHist

\* --------------------------------------------------------------- actions
\* A raw edge: the pin changes level and the IRQ runs _irq_handler.
Edge ==
  /\ DueTimers = {}
  /\ pin' = 1 - pin
  /\ _irq_handler
  /\ sinceEdge' = 0
  /\ edgeSincePoll' = TRUE
  /\ burst' = IF burst.active /\ sinceEdge < debounce_time
                THEN [burst EXCEPT !.edges = Min(@ + 1, EdgeCap)]
                ELSE [active |-> TRUE, startStable |-> last_stable_state, startPin |-> pin,
                      startPending |-> (debounce_timer # None), cb |-> 0, confirm |-> 0,
                      edges |-> 1]
  /\ preempted' = (preempted \/ pc # "idle")
  /\ UNCHANGED <<pollValid, expSincePoll, pollRepeat, seq,
                 raised>>

\* Timer t fires and _debounce_handler runs to completion.
Expire(t) ==
  /\ pc = "idle"
  /\ timers[t] = 0
  /\ LET cur == pin
         chg == Changed(cur, last_stable_state)
         cb == IF chg THEN Callback(cur) ELSE "none"
         n == IF cb = "none" THEN 0 ELSE 1
         new == IF chg THEN Update(cur) ELSE last_stable_state
         c == IF new # last_stable_state THEN 1 ELSE 0
     IN /\ timers' = [timers EXCEPT ![t] = Stopped]
        /\ last_stable_state' = new
        /\ debounce_timer' = Clear
        /\ h' = [op |-> "debounce", readPin |-> TRUE, confirmed |-> (c = 1), cb |-> cb,
                 saw |-> (cb # "none" /\ GetState)]
        /\ burst' = [burst EXCEPT !.cb = Sat(@ + n), !.confirm = Sat(@ + c)]
        /\ seq' = [seq EXCEPT !.cb = Sat(@ + n),
                              !.lastCb = IF cb = "none" THEN @ ELSE cb]
        /\ raised' = IF chg
                       THEN [cb |-> "none", level |-> cur,
                             again |-> (raised.cb # "none" /\ raised.cb = cb
                                        /\ raised.level = cur)]
                       ELSE raised
  /\ expSincePoll' = TRUE
  /\ UNCHANGED <<idle_state, debounce_time, press_callback, release_callback, pin,
                 pc, current_value, polled, pollValid, edgeSincePoll, pollRepeat, sinceEdge,
                 preempted>>

\* Timer t fires and the bound callback of the confirmed level raises: the
\* exception leaves _debounce_handler before its last two assignments.
ExpireRaise(t) ==
  /\ pc = "idle"
  /\ timers[t] = 0
  /\ LET cur == pin
         chg == Changed(cur, last_stable_state)
         cb == IF chg THEN Callback(cur) ELSE "none"
     IN /\ cb # "none"
        /\ timers' = [timers EXCEPT ![t] = Stopped]
        /\ last_stable_state' = StableAfterRaise(cur)
        /\ debounce_timer' = TimerAfterRaise
        /\ h' = [op |-> "debounce", readPin |-> TRUE,
                 confirmed |-> (last_stable_state' # last_stable_state), cb |-> cb,
                 saw |-> GetState]
        /\ burst' = [burst EXCEPT !.cb = Sat(@ + 1)]
        /\ seq' = [seq EXCEPT !.cb = Sat(@ + 1), !.lastCb = cb]
        /\ raised' = [cb |-> cb, level |-> cur,
                      again |-> (raised.cb = cb /\ raised.level = cur)]
  /\ expSincePoll' = TRUE
  /\ UNCHANGED <<idle_state, debounce_time, press_callback, release_callback, pin,
                 pc, current_value, polled, pollValid, edgeSincePoll, pollRepeat, sinceEdge,
                 preempted>>

\* One millisecond passes; no timer is overdue and no handler is running.
Tick ==
  /\ pc = "idle"
  /\ DueTimers = {}
  /\ timers' = [t \in TimerIds |-> IF timers[t] = Stopped THEN Stopped ELSE timers[t] - 1]
  /\ sinceEdge' = Min(sinceEdge + 1, MaxDebounce)
  /\ UNCHANGED <<idle_state, debounce_time, press_callback, release_callback, pin,
                 last_stable_state, debounce_timer, pc, current_value, polled,
                 pollValid, edgeSincePoll, expSincePoll, pollRepeat, h, burst, seq,
                 preempted,
                 raised>>

\* The main loop: if button.get_state(): ...
MainLoop ==
  /\ pc = "idle"
  /\ polled' = GetState
  /\ last_stable_state' = StableAfterGetState
  /\ pollValid' = TRUE
  /\ edgeSincePoll' = FALSE
  /\ expSincePoll' = FALSE
  /\ pollRepeat' = (pollValid /\ ~edgeSincePoll /\ ~expSincePoll)
  /\ UNCHANGED <<idle_state, debounce_time, press_callback, release_callback, pin,
                 debounce_timer, timers, pc, current_value,
                 sinceEdge, h, burst, seq, preempted,
                 raised>>

Next ==
  \/ Edge
  \/ \E t \in TimerIds : Expire(t)
  \/ Tick
  \/ MainLoop

Spec == Init /\ [][Next]_vars

\* A one-shot timer that is due does fire, and time does pass.
Fairness == WF_vars(Tick) /\ WF_vars(\E t \in TimerIds : Expire(t))
SpecFair == Spec /\ Fairness

\* The callbacks may raise.
NextRaise ==
  \/ Edge
  \/ \E t \in TimerIds : Expire(t)
  \/ \E t \in TimerIds : ExpireRaise(t)
  \/ Tick
  \/ MainLoop

SpecRaise == Init /\ [][NextRaise]_vars

\* ------------------------------------- _debounce_handler, statement by statement
\* The timer's lambda calls _debounce_handler: current_value = self.pin.value()
TimerFire(t) ==
  /\ pc = "idle"
  /\ timers[t] = 0
  /\ timers' = [timers EXCEPT ![t] = Stopped]
  /\ current_value' = pin
  /\ pc' = "compare"
  /\ expSincePoll' = TRUE
  /\ h' = [op |-> "debounce", readPin |-> TRUE, confirmed |-> FALSE, cb |-> "none",
           saw |-> FALSE]
  /\ UNCHANGED <<idle_state, debounce_time, press_callback, release_callback, pin,
                 last_stable_state, debounce_timer, polled, pollValid, edgeSincePoll,
                 pollRepeat, sinceEdge, burst, seq, preempted,
                 raised>>

\* The comparison and the callback it selects.
DebounceDispatch ==
  /\ pc = "compare"
  /\ LET chg == Changed(current_value, last_stable_state)
         cb == IF chg THEN Callback(current_value) ELSE "none"
         n == IF cb = "none" THEN 0 ELSE 1
     IN /\ pc' = IF chg THEN "update" ELSE "clear"
        /\ h' = [h EXCEPT !.cb = cb, !.saw = (cb # "none" /\ GetState)]
        /\ burst' = [burst EXCEPT !.cb = Sat(@ + n)]
        /\ seq' = [seq EXCEPT !.cb = Sat(@ + n),
                              !.lastCb = IF cb = "none" THEN @ ELSE cb]
  /\ UNCHANGED <<idle_state, debounce_time, press_callback, release_callback, pin,
                 last_stable_state, debounce_timer, timers, current_value, polled,
                 pollValid, edgeSincePoll, expSincePoll, pollRepeat, sinceEdge, preempted,
                 raised>>

\* self.last_stable_state = current_value
DebounceUpdate ==
  /\ pc = "update"
  /\ last_stable_state' = Update(current_value)
  /\ pc' = "clear"
  /\ h' = [h EXCEPT !.confirmed = (last_stable_state' # last_stable_state)]
  /\ burst' = [burst EXCEPT !.confirm =
                  Sat(@ + (IF last_stable_state' # last_stable_state THEN 1 ELSE 0))]
  /\ UNCHANGED <<idle_state, debounce_time, press_callback, release_callback, pin,
                 debounce_timer, timers, current_value, polled, pollValid,
                 edgeSincePoll, expSincePoll, pollRepeat, sinceEdge, seq, preempted,
                 raised>>

\* self.debounce_timer = None
DebounceClear ==
  /\ pc = "clear"
  /\ debounce_timer' = Clear
  /\ pc' = "idle"
  /\ preempted' = (preempted /\ ArmedTimers # {})
  /\ UNCHANGED <<idle_state, debounce_time, press_callback, release_callback, pin,
                 last_stable_state, timers, current_value, polled, pollValid,
                 edgeSincePoll, expSincePoll, pollRepeat, sinceEdge, h, burst, seq,
                 raised>>

NextPreempt ==
  \/ Edge
  \/ \E t \in TimerIds : TimerFire(t)
  \/ DebounceDispatch
  \/ DebounceUpdate
  \/ DebounceClear
  \/ Tick

SpecPreempt == Init /\ [][NextPreempt]_vars

\* ------------------------------------------------------------ vocabulary
BothBound == press_callback /\ release_callback
\* the callback that belongs to the level the pin now has
Expected == IF pin # idle_state THEN "press" ELSE "release"
ExpectedBound == IF pin # idle_state THEN press_callback ELSE release_callback
\* at least one edge was seen, the last one at least debounce_time ms ago, and
\* every timer has fired and been handled
Quiet ==
  /\ burst.active
  /\ sinceEdge >= debounce_time
  /\ ArmedTimers = {}
  /\ pc = "idle"
\* an armed timer has not yet completed its expiry handler
WindowRunning == ArmedTimers # {} \/ pc # "idle"

\* ------------------------------------------------------------------ claims

\* C1: whenever the timer-expiry handler changes last_stable_state or invokes
\* a callback, at least debounce_time ms have elapsed since the most recent
\* raw edge.
C1_StableOnlyAfterFullWindow ==
  (h.op = "debounce" /\ (h.confirmed \/ h.cb # "none")) => sinceEdge >= debounce_time
\* a level confirmed exactly debounce_time ms after the last edge of a burst
\* whose earlier edges had restarted the window
C1_Witness ==
  /\ h.op = "debounce" /\ h.confirmed
  /\ sinceEdge = debounce_time
  /\ burst.edges >= 3

\* C2 as stated: after any sequence of raw edges (from construction, no timer
\* pending) followed by a quiet window, exactly one callback has fired iff the
\* final level differs from last_stable_state at the start, and it is on_press
\* iff the final level differs from idle_state (both callbacks bound).
C2_AnySequence ==
  (Quiet /\ BothBound) =>
     /\ (seq.cb = 1) <=> (pin # seq.initStable)
     /\ (seq.cb = 1) => (seq.lastCb = Expected)
\* C2 amended: the same for a sequence in which every edge arrives less than
\* debounce_time ms after the previous one (a single burst that starts with no
\* timer pending).
C2_SingleBurst ==
  (Quiet /\ BothBound /\ ~burst.startPending) =>
     /\ (burst.cb = 1) <=> (pin # burst.startStable)
     /\ (burst.cb = 1) => (seq.lastCb = Expected)
\* a settled three-edge burst that fired its one callback
C2_Witness ==
  /\ Quiet /\ BothBound /\ ~burst.startPending
  /\ burst.edges = 3 /\ burst.cb = 1
  /\ pin # burst.startStable

\* C3: a burst in which the pin is back at its original level (the level equal
\* to last_stable_state) fires no callback and leaves last_stable_state, and so
\* get_state(), as they were before the burst, also once the timer has expired.
C3_ChatterBackToOriginal ==
  (burst.active /\ burst.startPin = burst.startStable /\ pin = burst.startStable) =>
     /\ burst.cb = 0
     /\ last_stable_state = burst.startStable
     /\ GetState = (burst.startStable # idle_state)
\* the timer of a two-edge burst has expired with the pin back at its level
C3_Witness ==
  /\ Quiet /\ h.op = "debounce"
  /\ burst.edges = 2
  /\ burst.startPin = burst.startStable /\ pin = burst.startStable
  /\ BothBound

C5_CallbackSeesNewState ==
  /\ (h.cb = "press") => h.saw
  /\ (h.cb = "release") => ~h.saw

\* C6: at most one armed timer is in flight, it is the one debounce_timer
\* names, and after a run of _irq_handler the timer it armed is the only one.
C6_AtMostOneTimer ==
  /\ Cardinality(ArmedTimers) <= 1
  /\ ArmedTimers \subseteq {debounce_timer}
  /\ (h.op = "irq") => (ArmedTimers = {debounce_timer})
\* an edge re-armed the timer while the previous one was still pending
C6_Witness ==
  /\ h.op = "irq" /\ burst.edges >= 2
  /\ sinceEdge > 0
  /\ Cardinality(ArmedTimers) = 1

\* C7 as stated: debounce_timer is non-None iff an armed timer has not yet
\* completed its expiry handler, also when an edge is delivered between the
\* handler's pin read and its clearing of debounce_timer.
C7_FieldTracksWindow ==
  (debounce_timer # None) <=> WindowRunning
\* C7 amended: the same as long as no raw edge has been delivered inside a run
\* of the expiry handler since the button was last at rest.
C7_FieldTracksWindowUnpreempted ==
  ~preempted => ((debounce_timer # None) <=> WindowRunning)
\* the expiry handler is about to clear the field of the timer that fired
C7_Witness ==
  /\ ~preempted /\ pc = "clear"
  /\ debounce_timer # None /\ ArmedTimers = {}

\* C8: a run of _irq_handler leaves last_stable_state and idle_state (and the
\* rest of the configuration) unchanged, reads no pin and invokes no callback.
C8_IrqHandlerFrame ==
  [][Edge =>
       /\ last_stable_state' = last_stable_state
       /\ idle_state' = idle_state
       /\ UNCHANGED <<debounce_time, press_callback, release_callback, polled, seq>>
       /\ burst'.cb \in {0, burst.cb} /\ burst'.confirm \in {0, burst.confirm}
       /\ ~h'.readPin /\ h'.cb = "none" /\ ~h'.confirmed]_vars
\* the handler has run with the pin away from the confirmed level
C8_Witness ==
  /\ h.op = "irq"
  /\ pin # last_stable_state
  /\ debounce_timer # None

\* C9: get_state() returns true iff last_stable_state differs from idle_state:
\* until the next timer expiry, what it returned equals that comparison,
\* whatever the pin does.
C9_GetStateIsConfirmedLevel ==
  (pollValid /\ ~expSincePoll) => (polled = (last_stable_state # idle_state))
\* get_state() answered with the confirmed level while the pin showed the other
C9_Witness ==
  /\ pollValid /\ ~expSincePoll /\ ~edgeSincePoll
  /\ pin # last_stable_state
  /\ polled # (pin # idle_state)

\* C10 as stated: two calls of get_state() with no raw edge between them
\* return the same value.
C10_NoEdgeBetween ==
  [][(MainLoop /\ pollValid /\ ~edgeSincePoll) => (polled' = polled)]_vars
\* C10 amended: two calls of get_state() with no raw edge and no timer expiry
\* between them return the same value.
C10_NoEdgeNoExpiryBetween ==
  [][(MainLoop /\ pollValid /\ ~edgeSincePoll /\ ~expSincePoll) => (polled' = polled)]_vars
\* a second call right after a first, with a timer pending and the pin away
\* from the confirmed level
C10_Witness ==
  /\ pollRepeat /\ ~edgeSincePoll /\ ~expSincePoll
  /\ debounce_timer # None /\ sinceEdge > 0
  /\ polled # (pin # idle_state)

\* C11: get_state() is a pure read: a call from the main loop leaves
\* last_stable_state, idle_state, the pending timer and the callback bindings
\* unchanged and invokes no callback; last_stable_state and the pending timer
\* change only in a raw-edge or timer-expiry handler.
C11_GetStateIsPure ==
  [][/\ MainLoop =>
          /\ UNCHANGED <<last_stable_state, idle_state, debounce_time, debounce_timer,
                         timers, press_callback, release_callback, pin>>
          /\ UNCHANGED <<h, seq, burst>>
     /\ (last_stable_state' # last_stable_state \/ debounce_timer' # debounce_timer) =>
          (Edge \/ \E t \in TimerIds : Expire(t))]_vars
\* get_state() was called while a timer was pending and the pin was away from
\* the confirmed level
C11_Witness ==
  /\ pollValid /\ ~edgeSincePoll /\ ~expSincePoll
  /\ debounce_timer # None /\ ArmedTimers # {}
  /\ pin # last_stable_state
  /\ polled = GetState

C13_ExpiryLevelUnchanged ==
  [][\A t \in TimerIds :
       (Expire(t) /\ pin = last_stable_state) =>
          /\ h'.cb = "none" /\ ~h'.confirmed
          /\ UNCHANGED <<last_stable_state, seq, idle_state, debounce_time,
                         press_callback, release_callback, pin, polled>>
          /\ burst'.cb = burst.cb /\ burst'.confirm = burst.confirm
          /\ debounce_timer # None
          /\ debounce_timer' = None
          /\ ArmedTimers' = {}]_vars
\* the timer of a burst that went back to the confirmed level has expired
C13_Witness ==
  /\ h.op = "debounce" /\ h.cb = "none" /\ ~h.confirmed
  /\ burst.edges = 2 /\ burst.cb = 0
  /\ BothBound
  /\ debounce_timer = None /\ ArmedTimers = {}

\* C14: until the first edge after construction, last_stable_state is the pin
\* level sampled at construction, no timer is pending and no callback has been
\* invoked, also when that level differs from idle_state.
C14_AfterConstruction ==
  (h.op = "init") =>
     /\ last_stable_state = pin
     /\ GetState = (pin # idle_state)
     /\ debounce_timer = None
     /\ ArmedTimers = {}
     /\ seq.cb = 0 /\ seq.lastCb = "none"
\* get_state() returned true after a construction with the button held down,
\* and on_press was never invoked
C14_Witness ==
  /\ h.op = "init"
  /\ pin # idle_state
  /\ pollValid /\ polled
  /\ press_callback
  /\ seq.cb = 0

\* C15: when the callback of a confirmed transition is not bound, the expiry
\* handler still makes the level read the confirmed one and clears the pending
\* timer, and invokes nothing.
C15_UnboundCallback ==
  [][\A t \in TimerIds :
       (Expire(t) /\ pin # last_stable_state /\ ~ExpectedBound) =>
          /\ last_stable_state' = pin
          /\ (last_stable_state' # idle_state') = (pin # idle_state)
          /\ h'.confirmed /\ h'.cb = "none"
          /\ seq' = seq
          /\ debounce_timer' = None
          /\ ArmedTimers' = {}]_vars
\* a press was confirmed with press_callback unbound
C15_Witness ==
  /\ h.op = "debounce" /\ h.confirmed /\ h.cb = "none"
  /\ ~press_callback /\ release_callback
  /\ GetState /\ pin # idle_state
  /\ debounce_timer = None

\* no timer is pending and the confirmed level is the pin's level
Settled ==
  /\ debounce_timer = None
  /\ ArmedTimers = {}
  /\ last_stable_state = pin
  /\ GetState = (pin # idle_state)

C18_RaisingCallback ==
  [][\A t \in TimerIds :
       /\ ExpireRaise(t) =>
            /\ last_stable_state' = last_stable_state
            /\ last_stable_state' # pin
            /\ (last_stable_state' # idle_state') = GetState
            /\ debounce_timer' = t
            /\ timers'[t] = Stopped
       /\ ((Expire(t) \/ ExpireRaise(t)) /\ raised.cb # "none" /\ pin = raised.level) =>
            h'.cb = raised.cb]_vars
\* the callback that had raised was invoked again for the same level, this time
\* returning, and the transition was confirmed
C18_Witness ==
  /\ raised.again /\ raised.cb = "none"
  /\ h.op = "debounce" /\ h.confirmed /\ h.cb # "none"
  /\ debounce_timer = None

====
